---- MODULE Spec2Model ----
(***************************************************************************)
(* Model of main.py: the three request handlers of the order assistant     *)
(* gateway (/identify-restaurant, /scan-menu, /chat).  One behaviour is    *)
(* one request; the external services (places lookup, language model) are  *)
(* nondeterministic inputs of the actions that call them.                   *)
(***************************************************************************)
EXTENDS Integers, Sequences, FiniteSets, TLC

VARIABLES endpoint, pc, outcome,
          history, current_order,
          messages, calls, msg, updated_order, i, final_text,
          chat_reply, lookup, identify_reply, extraction, scan_reply

vars == <<endpoint, pc, outcome, history, current_order, messages, calls,
          msg, updated_order, i, final_text, chat_reply, lookup,
          identify_reply, extraction, scan_reply>>

other_vars == <<lookup, identify_reply, extraction, scan_reply>>

chat_vars == <<messages, calls, msg, updated_order, i, final_text, chat_reply>>

----
(* Bounds of the explored inputs *)
MaxHist == 7
MaxOrder == 2
MaxCalls == 2

(* history[-6:] keeps this many turns *)
HistoryWindow == 6

Items == {"Fries", "Burger"}

Min(a, b) == IF a < b THEN a ELSE b
Max(a, b) == IF a > b THEN a ELSE b

SeqsUpTo(S, n) == UNION {[1..k -> S] : k \in 0..n}

----
(* Messages of a model conversation.  Every message has the same shape;    *)
(* tool_call_id = 0 and tool_calls = <<>> stand for an absent field.        *)
Message(role, content, tool_call_id, tool_calls) ==
    [role |-> role, content |-> content,
     tool_call_id |-> tool_call_id, tool_calls |-> tool_calls]

(* The history a caller resends: turn k carries the text "turn k", roles   *)
(* alternate starting from either side.                                     *)
OtherRole(r) == IF r = "user" THEN "assistant" ELSE "user"

Turn(first, k) ==
    Message(IF k % 2 = 1 THEN first ELSE OtherRole(first),
            <<"turn", ToString(k)>>, 0, <<>>)

Histories ==
    {[k \in 1..n |-> Turn(first, k)] : n \in 0..MaxHist, first \in {"user", "assistant"}}

Orders == SeqsUpTo(Items, MaxOrder)

user_message == <<"I want to order">>

(* current_order_str and the system prompt built around it *)
current_order_str(order) == IF order # <<>> THEN order ELSE <<"Nothing yet">>

system_prompt(order) ==
    <<"You are Bill Clinton", "Current Tab:">> \o current_order_str(order)

(* variant: the slice starts one turn too early *)
LastTurnsOneMore(h) ==
    LET start == Max(Len(h) - HistoryWindow - 1, 0)
    IN  [k \in 1..(Len(h) - start) |-> h[start + k]]

(* request.history[-6:] *)
LastTurns(h) ==
    LET start == Max(Len(h) - HistoryWindow, 0)
    IN  [k \in 1..(Len(h) - start) |-> h[start + k]]

BuildMessages(order, h) ==
    (<<Message("system", system_prompt(order), 0, <<>>)>> \o LastTurns(h))
        \o <<Message("user", user_message, 0, <<>>)>>

----
(* The arguments text of a tool call and what json.loads and the two       *)
(* subscripts make of it.                                                   *)
ArgTexts ==
    {[json |-> TRUE, keys |-> TRUE, action |-> a, item_name |-> x] :
        a \in {"add", "remove"}, x \in Items}
    \cup {[json |-> FALSE, keys |-> FALSE, action |-> "", item_name |-> ""],
          [json |-> TRUE, keys |-> FALSE, action |-> "", item_name |-> ""]}

(* json.loads(tool.function.arguments), then args["action"], args["item_name"] *)
Decodes(text) == text.json /\ text.keys

ToolCallSeqs ==
    UNION {{[k \in 1..n |-> [id |-> k, arguments |-> f[k]]] : f \in [1..n -> ArgTexts]}
             : n \in 1..MaxCalls}

FirstResponses ==
    {[content |-> <<"first text">>, tool_calls |-> tc] : tc \in ToolCallSeqs \cup {<<>>}}

NoMsg == [content |-> <<>>, tool_calls |-> <<>>]

(* variant: the removal drops the head of the list *)
ListRemoveHead(order, x) == Tail(order)

(* list.remove(x): delete the first element equal to x *)
RECURSIVE ListRemove(_, _)
ListRemove(order, x) ==
    IF order = <<>> THEN <<>>
    ELSE IF Head(order) = x THEN Tail(order)
         ELSE <<Head(order)>> \o ListRemove(Tail(order), x)

Contains(order, x) == \E k \in 1..Len(order) : order[k] = x

(* variant: an item already on the order is not added again *)
ApplyInvocationNoDuplicate(order, args) ==
    LET afterAdd == IF args.action = "add" /\ ~Contains(order, args.item_name)
                    THEN Append(order, args.item_name) ELSE order
    IN  IF args.action = "remove" /\ Contains(afterAdd, args.item_name)
        THEN ListRemove(afterAdd, args.item_name)
        ELSE afterAdd

(* the two ifs of the loop body *)
ApplyInvocation(order, args) ==
    LET afterAdd == IF args.action = "add" THEN Append(order, args.item_name) ELSE order
    IN  IF args.action = "remove" /\ Contains(afterAdd, args.item_name)
        THEN ListRemove(afterAdd, args.item_name)
        ELSE afterAdd

(* variant: the working order starts empty *)
CopyOrderEmpty(order) == <<>>

(* updated_order = list(request.current_order) *)
CopyOrder(order) == order

(* variant: the acknowledgment names the last invocation *)
ToolAckLast(tool_calls) ==
    Message("tool", <<"Order Updated.">>, tool_calls[Len(tool_calls)].id, <<>>)

(* the synthetic tool-result acknowledgment *)
ToolAck(tool_calls) == Message("tool", <<"Order Updated.">>, tool_calls[1].id, <<>>)

AssistantMsg(m) == Message("assistant", m.content, 0, m.tool_calls)

(* one entry of the log of model calls: what was sent, whether tools were  *)
(* offered, whether the call raised, and the text it returned              *)
ModelCall(sent, tools, raised, text) ==
    [messages |-> sent, tools |-> tools, raised |-> raised, text |-> text]

SecondTexts == {<<"second text">>}

NoChatReply == [text |-> <<>>, updated_order |-> <<>>]

----
(* gmaps.places_nearby: it raises, or returns a response that may lack the *)
(* 'results' key, or one holding a list of places.                          *)
Places ==
    {[name |-> <<"Joe's Diner">>, vicinity |-> "1 Main St"],
     [name |-> <<"Cafe Luna">>, vicinity |-> "2 Side St"]}

MaxPlaces == 2

Lookups ==
    {[raises |-> r, has_results |-> h, results |-> rs] :
        r \in BOOLEAN, h \in BOOLEAN, rs \in SeqsUpTo(Places, MaxPlaces)}

UnknownLocation == [name |-> <<"Unknown Location">>, address |-> "N/A"]
UnknownLocationError == [name |-> <<"Unknown Location", " (Error)">>, address |-> "N/A"]
NoPlaceReply == [name |-> <<>>, address |-> ""]

(* variant: a failure of the lookup is not caught *)
identify_restaurant_uncaught(places_result) ==
    IF places_result.raises \/ ~places_result.has_results
    THEN [outcome |-> "error", reply |-> NoPlaceReply]
    ELSE IF places_result.results = <<>>
         THEN [outcome |-> "ok", reply |-> UnknownLocation]
         ELSE [outcome |-> "ok",
               reply |-> [name |-> places_result.results[1].name,
                          address |-> places_result.results[1].vicinity]]

(* the handler of /identify-restaurant, as a function of the lookup's outcome *)
identify_restaurant(places_result) ==
    IF places_result.raises \/ ~places_result.has_results
    THEN [outcome |-> "ok", reply |-> UnknownLocationError]
    ELSE IF places_result.results = <<>>
         THEN [outcome |-> "ok", reply |-> UnknownLocation]
         ELSE [outcome |-> "ok",
               reply |-> [name |-> places_result.results[1].name,
                          address |-> places_result.results[1].vicinity]]

(* The extraction call: it raises, or returns a content text that          *)
(* json.loads parses (into value) or rejects.                               *)
MenuObjects ==
    {[drinks |-> <<"Tea">>, appetizers |-> <<>>, entrees |-> <<"Pasta">>, sides |-> <<"Rice">>],
     [drinks |-> <<>>, appetizers |-> <<>>, entrees |-> <<>>, sides |-> <<>>]}

NoLookup == [raises |-> FALSE, has_results |-> FALSE, results |-> <<>>]
NoExtraction == [raises |-> FALSE, json |-> FALSE, value |-> [none |-> <<>>]]

Extractions ==
    {[raises |-> r, json |-> j, value |-> v] :
        r \in BOOLEAN, j \in BOOLEAN, v \in MenuObjects}

FallbackMenu == [drinks |-> <<"Coke", "Water">>, entrees |-> <<"Burger", "Salad">>]
NoMenuReply == [none |-> <<>>]

(* variant: only a failure of the call is caught, not one of the parse *)
scan_menu_parse_uncaught(response) ==
    IF response.raises
    THEN [outcome |-> "ok", reply |-> FallbackMenu]
    ELSE IF ~response.json
         THEN [outcome |-> "error", reply |-> NoMenuReply]
         ELSE [outcome |-> "ok", reply |-> response.value]

(* the handler of /scan-menu, as a function of the extraction's outcome *)
scan_menu(response) ==
    IF response.raises \/ ~response.json
    THEN [outcome |-> "ok", reply |-> FallbackMenu]
    ELSE [outcome |-> "ok", reply |-> response.value]

----
Init ==
    /\ endpoint \in {"identify", "scan", "chat"}
    /\ pc = "start"
    /\ outcome = "pending"
    /\ history \in (IF endpoint = "chat" THEN Histories ELSE {<<>>})
    /\ current_order \in (IF endpoint = "chat" THEN Orders ELSE {<<>>})
    /\ messages = <<>>
    /\ calls = <<>>
    /\ msg = NoMsg
    /\ updated_order = <<>>
    /\ i = 0
    /\ final_text = <<>>
    /\ chat_reply = NoChatReply
    /\ lookup = NoLookup
    /\ extraction = NoExtraction
    /\ identify_reply = NoPlaceReply
    /\ scan_reply = NoMenuReply

(* /chat, lines 125-127 *)
ChatBuild ==
    /\ endpoint = "chat" /\ pc = "start"
    /\ messages' = BuildMessages(current_order, history)
    /\ pc' = "call1"
    /\ UNCHANGED <<endpoint, outcome, history, current_order, calls, msg,
                   updated_order, i, final_text, chat_reply, other_vars>>

(* lines 130-139: the first call returns *)
FirstCallReturns ==
    /\ endpoint = "chat" /\ pc = "call1"
    /\ \E resp \in FirstResponses :
          /\ msg' = resp
          /\ final_text' = resp.content
          /\ pc' = IF resp.tool_calls # <<>> THEN "apply" ELSE "return"
          /\ calls' = Append(calls, ModelCall(messages, TRUE, FALSE, resp.content))
    /\ updated_order' = CopyOrder(current_order)
    /\ i' = 1
    /\ UNCHANGED <<endpoint, outcome, history, current_order, messages,
                   chat_reply, other_vars>>

(* line 130 raises *)
FirstCallRaises ==
    /\ endpoint = "chat" /\ pc = "call1"
    /\ calls' = Append(calls, ModelCall(messages, TRUE, TRUE, <<>>))
    /\ pc' = "error"
    /\ outcome' = "error"
    /\ UNCHANGED <<endpoint, history, current_order, messages, msg,
                   updated_order, i, final_text, chat_reply, other_vars>>

(* variant: the loop walks the invocations from the last to the first *)
ApplyToolReversed ==
    /\ endpoint = "chat" /\ pc = "apply"
    /\ i <= Len(msg.tool_calls)
    /\ Decodes(msg.tool_calls[Len(msg.tool_calls) + 1 - i].arguments)
    /\ updated_order' =
          ApplyInvocation(updated_order, msg.tool_calls[Len(msg.tool_calls) + 1 - i].arguments)
    /\ i' = i + 1
    /\ UNCHANGED <<endpoint, pc, outcome, history, current_order, messages, calls,
                   msg, final_text, chat_reply, other_vars>>

(* lines 143-146: one iteration of the loop *)
ApplyTool ==
    /\ endpoint = "chat" /\ pc = "apply"
    /\ i <= Len(msg.tool_calls)
    /\ Decodes(msg.tool_calls[i].arguments)
    /\ updated_order' = ApplyInvocation(updated_order, msg.tool_calls[i].arguments)
    /\ i' = i + 1
    /\ UNCHANGED <<endpoint, pc, outcome, history, current_order, messages, calls,
                   msg, final_text, chat_reply, other_vars>>

(* lines 144-146 raise: the arguments are no JSON, or lack a key *)
ApplyToolRaises ==
    /\ endpoint = "chat" /\ pc = "apply"
    /\ i <= Len(msg.tool_calls)
    /\ ~Decodes(msg.tool_calls[i].arguments)
    /\ pc' = "error"
    /\ outcome' = "error"
    /\ UNCHANGED <<endpoint, history, current_order, messages, calls, msg,
                   updated_order, i, final_text, chat_reply, other_vars>>

SecondMessages == messages \o <<AssistantMsg(msg), ToolAck(msg.tool_calls)>>

(* variant: the confirmation text is dropped *)
SecondCallReturnsKeepsText ==
    /\ endpoint = "chat" /\ pc = "apply"
    /\ i > Len(msg.tool_calls)
    /\ messages' = SecondMessages
    /\ \E text \in SecondTexts :
          calls' = Append(calls, ModelCall(SecondMessages, FALSE, FALSE, text))
    /\ pc' = "return"
    /\ UNCHANGED <<endpoint, outcome, history, current_order, msg,
                   updated_order, i, final_text, chat_reply, other_vars>>

(* lines 149-152: the confirmation call returns *)
SecondCallReturns ==
    /\ endpoint = "chat" /\ pc = "apply"
    /\ i > Len(msg.tool_calls)
    /\ messages' = SecondMessages
    /\ \E text \in SecondTexts :
          /\ calls' = Append(calls, ModelCall(SecondMessages, FALSE, FALSE, text))
          /\ final_text' = text
    /\ pc' = "return"
    /\ UNCHANGED <<endpoint, outcome, history, current_order, msg,
                   updated_order, i, chat_reply, other_vars>>

(* variant: a failure of the confirmation call is swallowed *)
SecondCallRaisesMasked ==
    /\ endpoint = "chat" /\ pc = "apply"
    /\ i > Len(msg.tool_calls)
    /\ messages' = SecondMessages
    /\ calls' = Append(calls, ModelCall(SecondMessages, FALSE, TRUE, <<>>))
    /\ pc' = "return"
    /\ UNCHANGED <<endpoint, outcome, history, current_order, msg, updated_order, i,
                   final_text, chat_reply, other_vars>>

(* line 151 raises *)
SecondCallRaises ==
    /\ endpoint = "chat" /\ pc = "apply"
    /\ i > Len(msg.tool_calls)
    /\ messages' = SecondMessages
    /\ calls' = Append(calls, ModelCall(SecondMessages, FALSE, TRUE, <<>>))
    /\ pc' = "error"
    /\ outcome' = "error"
    /\ UNCHANGED <<endpoint, history, current_order, msg, updated_order, i,
                   final_text, chat_reply, other_vars>>

(* line 154 *)
ChatReturn ==
    /\ endpoint = "chat" /\ pc = "return"
    /\ chat_reply' = [text |-> final_text, updated_order |-> updated_order]
    /\ pc' = "done"
    /\ outcome' = "ok"
    /\ UNCHANGED <<endpoint, history, current_order, messages, calls, msg,
                   updated_order, i, final_text, other_vars>>

(* /identify-restaurant, lines 46-64 *)
IdentifyRestaurant ==
    /\ endpoint = "identify" /\ pc = "start"
    /\ \E l \in Lookups :
          /\ lookup' = l
          /\ outcome' = identify_restaurant(l).outcome
          /\ identify_reply' =
                IF identify_restaurant(l).outcome = "ok"
                THEN identify_restaurant(l).reply ELSE identify_reply
    /\ pc' = "done"
    /\ UNCHANGED <<endpoint, history, current_order, chat_vars, extraction, scan_reply>>

(* /scan-menu, lines 67-92 *)
ScanMenu ==
    /\ endpoint = "scan" /\ pc = "start"
    /\ \E e \in Extractions :
          /\ extraction' = e
          /\ outcome' = scan_menu(e).outcome
          /\ scan_reply' =
                IF scan_menu(e).outcome = "ok" THEN scan_menu(e).reply ELSE scan_reply
    /\ pc' = "done"
    /\ UNCHANGED <<endpoint, history, current_order, chat_vars, lookup, identify_reply>>

Next ==
    \/ IdentifyRestaurant
    \/ ScanMenu
    \/ ChatBuild
    \/ FirstCallReturns
    \/ FirstCallRaises
    \/ ApplyTool
    \/ ApplyToolRaises
    \/ SecondCallReturns
    \/ SecondCallRaises
    \/ ChatReturn

Spec == Init /\ [][Next]_vars

----
(* Vocabulary of the properties *)
ToolCalls == msg.tool_calls
NumCalls == Len(ToolCalls)
ArgsAt(k) == ToolCalls[k].arguments
Terminal == pc \in {"done", "error"}
Replied == endpoint = "chat" /\ pc = "done"
FirstReturned == calls # <<>> /\ ~calls[1].raised
AllDecode == \A k \in 1..NumCalls : Decodes(ArgsAt(k))
Count(order, x) == Cardinality({k \in 1..Len(order) : order[k] = x})

IsAppended(old, new, x) ==
    /\ Len(new) = Len(old) + 1
    /\ new[Len(new)] = x
    /\ \A k \in 1..Len(old) : new[k] = old[k]

IsOneRemoved(old, new, y) ==
    \E p \in 1..Len(old) :
        /\ old[p] = y
        /\ Len(new) = Len(old) - 1
        /\ \A k \in 1..Len(new) : new[k] = IF k < p THEN old[k] ELSE old[k + 1]

EffectOf(args, old, new) ==
    /\ args.action = "add" => IsAppended(old, new, args.item_name)
    /\ args.action = "remove" =>
          IF Count(old, args.item_name) > 0
          THEN IsOneRemoved(old, new, args.item_name)
          ELSE new = old

IsCall(k, action, item) ==
    /\ k <= NumCalls
    /\ Decodes(ArgsAt(k))
    /\ ArgsAt(k).action = action
    /\ ArgsAt(k).item_name = item

(* C1: the invocations of the first response are applied one at a time in  *)
(* the order returned, each to the list the previous one left (add appends *)
(* at the end, remove deletes one matching element if any), none is        *)
(* skipped before the reply, and current_order = ["Fries"] with add        *)
(* "Burger" then remove "Fries" returns exactly ["Burger"].                *)
C1_Scenario ==
    (/\ Replied
     /\ current_order = <<"Fries">>
     /\ NumCalls = 2
     /\ IsCall(1, "add", "Burger")
     /\ IsCall(2, "remove", "Fries"))
    => chat_reply.updated_order = <<"Burger">>

C1_LoopStep ==
    (endpoint = "chat" /\ pc = "apply" /\ (i' # i \/ updated_order' # updated_order))
    => /\ i <= NumCalls
       /\ i' = i + 1
       /\ msg' = msg
       /\ EffectOf(ArgsAt(i), updated_order, updated_order')

C1_SequentialApplication ==
    /\ [](C1_Scenario)
    /\ []((endpoint = "chat" /\ pc \in {"return", "done"} /\ NumCalls > 0) => i = NumCalls + 1)
    /\ [][C1_LoopStep]_vars

C1_Witness ==
    /\ Replied
    /\ current_order = <<"Fries">>
    /\ NumCalls = 2
    /\ IsCall(1, "add", "Burger")
    /\ IsCall(2, "remove", "Fries")
    /\ chat_reply.updated_order = <<"Burger">>

(* C2: with one "remove" invocation of Y in the first response: if Y       *)
(* occurs exactly once in current_order, updated_order has one occurrence  *)
(* of Y fewer and the other elements keep their values and relative order; *)
(* if Y does not occur, updated_order equals current_order.                *)
C2_SingleRemove ==
    \A y \in Items :
        (Replied /\ NumCalls = 1 /\ IsCall(1, "remove", y)) =>
            /\ Count(current_order, y) = 1 =>
                  /\ Count(chat_reply.updated_order, y) = 0
                  /\ IsOneRemoved(current_order, chat_reply.updated_order, y)
            /\ Count(current_order, y) = 0 =>
                  chat_reply.updated_order = current_order

C2_Witness ==
    /\ Replied /\ NumCalls = 1
    /\ IsCall(1, "remove", "Fries")
    /\ current_order = <<"Burger", "Fries">>
    /\ chat_reply.updated_order = <<"Burger">>

(* C3: with one "add" invocation of X in the first response, updated_order *)
(* is current_order with X appended once at the end, also when X is        *)
(* already on the order.                                                   *)
C3_SingleAdd ==
    \A x \in Items :
        (Replied /\ NumCalls = 1 /\ IsCall(1, "add", x)) =>
            /\ IsAppended(current_order, chat_reply.updated_order, x)
            /\ Count(chat_reply.updated_order, x) = Count(current_order, x) + 1

C3_Witness ==
    /\ Replied /\ NumCalls = 1
    /\ IsCall(1, "add", "Fries")
    /\ Count(current_order, "Fries") > 0
    /\ chat_reply.updated_order = Append(current_order, "Fries")

(* C4: when the first response carries no tool invocation, the returned    *)
(* updated_order equals current_order: same elements, order and length.    *)
C4_NoToolNoChange ==
    (Replied /\ NumCalls = 0) =>
        /\ Len(chat_reply.updated_order) = Len(current_order)
        /\ \A k \in 1..Len(current_order) : chat_reply.updated_order[k] = current_order[k]

C4_Witness ==
    /\ Replied /\ NumCalls = 0
    /\ Len(current_order) = 2
    /\ chat_reply.updated_order = current_order

(* C5: the first model call carries the system instruction, then the last  *)
(* min(6, length) history turns in their order, then the new user message; *)
(* a turn older than the last 6 appears in no outbound payload.            *)
KeptTurns == IF Len(history) < 6 THEN Len(history) ELSE 6

C5_HistoryWindow ==
    (endpoint = "chat" /\ calls # <<>>) =>
        LET sent == calls[1].messages
        IN  /\ Len(sent) = KeptTurns + 2
            /\ sent[1] = Message("system", system_prompt(current_order), 0, <<>>)
            /\ \A k \in 1..KeptTurns : sent[1 + k] = history[Len(history) - KeptTurns + k]
            /\ sent[KeptTurns + 2] = Message("user", user_message, 0, <<>>)
            /\ \A j \in 1..(Len(history) - 6) :
                  \A c \in 1..Len(calls) :
                     \A q \in 1..Len(calls[c].messages) : calls[c].messages[q] # history[j]

C5_Witness ==
    /\ endpoint = "chat"
    /\ Len(history) = 7
    /\ Len(calls) = 2
    /\ Len(calls[1].messages) = 8
    /\ calls[1].messages[2] = history[2]

(* C6: a failed model call is never masked: once the first call, or the    *)
(* confirmation call after the invocations were applied, has failed, the   *)
(* request is in the error outcome and there is no reply.                  *)
C6_FailureNotMasked ==
    (endpoint = "chat" /\ \E c \in 1..Len(calls) : calls[c].raised) =>
        /\ pc = "error"
        /\ outcome = "error"
        /\ chat_reply = NoChatReply

C6_Witness ==
    /\ endpoint = "chat"
    /\ Len(calls) = 2
    /\ calls[2].raised
    /\ updated_order # current_order
    /\ outcome = "error"

(* C7: when the places lookup yields no result or throws, the reply's name *)
(* starts with "Unknown Location", its address is "N/A", and the request   *)
(* does not end in an error.                                               *)
StartsWith(text, prefix) ==
    /\ Len(text) >= Len(prefix)
    /\ \A k \in 1..Len(prefix) : text[k] = prefix[k]

LookupFailed == lookup.raises \/ ~lookup.has_results

C7_LookupFailSoft ==
    (endpoint = "identify" /\ pc = "done" /\ (LookupFailed \/ lookup.results = <<>>)) =>
        /\ outcome = "ok"
        /\ StartsWith(identify_reply.name, <<"Unknown Location">>)
        /\ identify_reply.address = "N/A"

C7_Witness ==
    /\ endpoint = "identify" /\ pc = "done"
    /\ lookup.raises
    /\ identify_reply.name = <<"Unknown Location", " (Error)">>

(* C8: when the extraction call throws or returns content that does not    *)
(* parse, the reply is the fallback object: drinks Coke and Water, entrees *)
(* Burger and Salad, no other key; the request does not end in an error.   *)
C8_ScanFallback ==
    (endpoint = "scan" /\ pc = "done" /\ (extraction.raises \/ ~extraction.json)) =>
        /\ outcome = "ok"
        /\ DOMAIN scan_reply = {"drinks", "entrees"}
        /\ scan_reply.drinks = <<"Coke", "Water">>
        /\ scan_reply.entrees = <<"Burger", "Salad">>

C8_Witness ==
    /\ endpoint = "scan" /\ pc = "done"
    /\ ~extraction.raises /\ ~extraction.json
    /\ DOMAIN scan_reply = {"drinks", "entrees"}

SecondGainsSingleAck ==
    /\ Len(calls) = 2
    /\ Len(calls[2].messages) = Len(calls[1].messages) + 2
    /\ \A k \in 1..Len(calls[1].messages) : calls[2].messages[k] = calls[1].messages[k]
    /\ LET assistant == calls[2].messages[Len(calls[1].messages) + 1]
           ack == calls[2].messages[Len(calls[1].messages) + 2]
       IN  /\ assistant.role = "assistant"
           /\ assistant.tool_calls = ToolCalls
           /\ ack.role = "tool"
           /\ ack.tool_call_id = ToolCalls[1].id

====
